---- MODULE Spec2Model ----
(***************************************************************************)
(* Model of the expression parser: src/src/node.rs (splitter, tree         *)
(* construction, evaluation, rendering) and src/src/main.rs (read loop).   *)
(*                                                                         *)
(* A Rust String is a sequence of one-character strings, so splitting,     *)
(* joining, trimming, slicing and parsing are computed character by        *)
(* character as the code computes them.  An f64 is an exact rational       *)
(* <<numerator, denominator>> in lowest terms with a positive denominator; *)
(* rounding is not modelled, and the inputs are chosen so that every value *)
(* that is computed is a small rational.                                   *)
(***************************************************************************)
EXTENDS Integers, Sequences, FiniteSets

VARIABLES pc, input, root, result, rendered, stdout

vars == <<pc, input, root, result, rendered, stdout>>

(***************************************************************************)
(* Bounds of the model.                                                    *)
(***************************************************************************)
\* longest token sequence given to Node::from_expression
MaxTokens == 5
\* longest token sequence typed as an expression line of the read loop
MaxLineTokens == 3

(***************************************************************************)
(* Strings.                                                                *)
(***************************************************************************)
OPERATORS == <<"+", "-", "*", "/", "^">>

Digits == <<"0", "1", "2", "3", "4", "5", "6", "7", "8", "9">>

IsDigit(c) == \E i \in 1..10 : Digits[i] = c

DigitVal(c) == (CHOOSE i \in 1..10 : Digits[i] = c) - 1

\* the grave accent character (U+0060), which a TLA+ string cannot hold
Backtick == "<grave>"

\* char::is_whitespace, on the characters of the model
IsWhitespace(c) == c \in {" ", "\n"}

\* str::contains(pat): pat occurs at some offset; the empty pattern occurs everywhere
Contains(s, pat) ==
    \E i \in 0..(Len(s) - Len(pat)) : SubSeq(s, i + 1, i + Len(pat)) = pat

\* str::split("") : an empty piece, every character, an empty piece
SplitEmpty(s) == <<(<<>>)>> \o [i \in 1..Len(s) |-> <<s[i]>>] \o <<(<<>>)>>

\* str::split(c) for a one-character separator
RECURSIVE SplitOn(_, _)
SplitOn(s, c) ==
    IF \A i \in 1..Len(s) : s[i] # c
    THEN <<s>>
    ELSE LET i == CHOOSE k \in 1..Len(s) : s[k] = c /\ \A j \in 1..(k - 1) : s[j] # c
         IN  <<SubSeq(s, 1, i - 1)>> \o SplitOn(SubSeq(s, i + 1, Len(s)), c)

\* [&str]::join(sep)
RECURSIVE Join(_, _)
Join(tokens, sep) ==
    IF tokens = <<>> THEN <<>>
    ELSE IF Len(tokens) = 1 THEN tokens[1]
    ELSE tokens[1] \o sep \o Join(Tail(tokens), sep)

\* str::trim_end
RECURSIVE TrimEnd(_)
TrimEnd(s) ==
    IF s # <<>> /\ IsWhitespace(s[Len(s)]) THEN TrimEnd(SubSeq(s, 1, Len(s) - 1)) ELSE s

\* str::trim_start
RECURSIVE TrimStart(_)
TrimStart(s) ==
    IF s # <<>> /\ IsWhitespace(s[1]) THEN TrimStart(Tail(s)) ELSE s

\* str::trim
Trim(s) == TrimStart(TrimEnd(s))

(***************************************************************************)
(* The splitter.                                                           *)
(***************************************************************************)
\* the loop returns false at the first pattern the expression contains
has_no_operators(expression) ==
    LET patterns == SplitEmpty(OPERATORS)
    IN  \A i \in 1..Len(patterns) : ~Contains(expression, patterns[i])

\* the scan loop from token number index on (indices count from 0, as in the code);
\* the value is lowest_priority_operator_index when the loop ends
RECURSIVE ScanTokens(_, _, _, _)
\* variant: a * or / is selected whatever the current priority
ScanTokens_NoPriorityCheck(tokens, index, lowest, current_priority) ==
    IF index >= Len(tokens) THEN lowest
    ELSE LET token == tokens[index + 1]
         IN  IF token \in {<<"+">>, <<"-">>} THEN index
             ELSE IF token \in {<<"*">>, <<"/">>}
                  THEN ScanTokens(tokens, index + 1, index, 2)
             ELSE IF token = <<"^">>
                  THEN IF current_priority > 3
                       THEN ScanTokens(tokens, index + 1, index, 3)
                       ELSE ScanTokens(tokens, index + 1, lowest, current_priority)
             ELSE ScanTokens(tokens, index + 1, lowest, current_priority)

ScanTokens(tokens, index, lowest, current_priority) ==
    IF index >= Len(tokens) THEN lowest
    ELSE LET token == tokens[index + 1]
         IN  IF token \in {<<"+">>, <<"-">>} THEN index
             ELSE IF token \in {<<"*">>, <<"/">>}
                  THEN IF current_priority > 2
                       THEN ScanTokens(tokens, index + 1, index, 2)
                       ELSE ScanTokens(tokens, index + 1, lowest, current_priority)
             ELSE IF token = <<"^">>
                  THEN IF current_priority > 3
                       THEN ScanTokens(tokens, index + 1, index, 3)
                       ELSE ScanTokens(tokens, index + 1, lowest, current_priority)
             ELSE ScanTokens(tokens, index + 1, lowest, current_priority)

\* variant: with the operator at index 0 the other tokens become the left remainder
split_on_lowest_priority_operator_LeftRest(expression) ==
    IF has_no_operators(expression)
    THEN <<expression, <<>>, <<>>>>
    ELSE LET tokens == SplitOn(expression, " ")
             idx    == ScanTokens(tokens, 0, 0, 4)
         IN  IF idx = 0
             THEN <<tokens[1], Join(Tail(tokens), <<" ">>), <<>>>>
             ELSE <<tokens[idx + 1],
                    Join(SubSeq(tokens, 1, idx), <<" ">>),
                    Join(SubSeq(tokens, idx + 2, Len(tokens)), <<" ">>)>>

\* <<value, left remainder, right remainder>>
split_on_lowest_priority_operator(expression) ==
    IF has_no_operators(expression)
    THEN <<expression, <<>>, <<>>>>
    ELSE LET tokens == SplitOn(expression, " ")
             idx    == ScanTokens(tokens, 0, 0, 4)
         IN  IF idx = 0
             THEN <<tokens[1], <<>>, Join(Tail(tokens), <<" ">>)>>
             ELSE IF idx = Len(tokens)
             THEN <<tokens[idx + 1], Join(SubSeq(tokens, 1, Len(tokens) - 1), <<" ">>), <<>>>>
             ELSE <<tokens[idx + 1],
                    Join(SubSeq(tokens, 1, idx), <<" ">>),
                    Join(SubSeq(tokens, idx + 2, Len(tokens)), <<" ">>)>>

(***************************************************************************)
(* The tree.  An Option is a sequence of length 0 (None) or 1 (Some).      *)
(***************************************************************************)
None == <<>>

Some(x) == <<x>>

Node(value, l_child, r_child) ==
    [value |-> value, l_child |-> l_child, r_child |-> r_child]

RECURSIVE from_expression(_)
from_expression(expression) ==
    LET parts        == split_on_lowest_priority_operator(expression)
        operator     == parts[1]
        l_expression == parts[2]
        r_expression == parts[3]
    IN  Node(operator,
             IF l_expression = <<>> THEN None ELSE Some(from_expression(l_expression)),
             IF r_expression = <<>> THEN None ELSE Some(from_expression(r_expression)))

has_children(node) == ~(node.l_child = None /\ node.r_child = None)

(***************************************************************************)
(* f64 values as exact rationals.                                          *)
(***************************************************************************)
Abs(n) == IF n < 0 THEN -n ELSE n

RECURSIVE GCD(_, _)
GCD(a, b) == IF b = 0 THEN a ELSE GCD(b, a % b)

\* n / d in lowest terms, d # 0
Ratio(n, d) ==
    LET g == GCD(Abs(n), Abs(d))
        s == IF d < 0 THEN -1 ELSE 1
    IN  <<(s * n) \div g, (s * d) \div g>>

Zero == Ratio(0, 1)

F64Add(a, b) == Ratio(a[1] * b[2] + b[1] * a[2], a[2] * b[2])

F64Sub(a, b) == Ratio(a[1] * b[2] - b[1] * a[2], a[2] * b[2])

F64Mul(a, b) == Ratio(a[1] * b[1], a[2] * b[2])

\* b # Zero
F64Div(a, b) == Ratio(a[1] * b[2], a[2] * b[1])

RECURSIVE IntPow(_, _)
IntPow(a, n) == IF n = 0 THEN Ratio(1, 1) ELSE F64Mul(a, IntPow(a, n - 1))

\* f64::powf for the exponents the model computes.  A ^ is selected only when
\* the expression holds no other operator token, so its operands are literals,
\* chains of ^ or absent: the exponent is an integer, and the base is nonzero
\* when the exponent is negative (powf(x, 0) is 1 for every x)
Powf(a, b) ==
    IF b[1] >= 0 THEN IntPow(a, b[1]) ELSE F64Div(Ratio(1, 1), IntPow(a, -b[1]))

RECURSIVE DecimalValue(_)
DecimalValue(digits) ==
    IF digits = <<>> THEN 0
    ELSE 10 * DecimalValue(SubSeq(digits, 1, Len(digits) - 1)) + DigitVal(digits[Len(digits)])

IsDecimal(s) == s # <<>> /\ \A i \in 1..Len(s) : IsDigit(s[i])

\* str::parse::<f64> on the strings of the model: an optional sign and one or
\* more decimal digits ('.', exponents, "inf" and "nan" are not in the alphabet)
ParseF64(s) ==
    LET signed == s # <<>> /\ s[1] \in {"+", "-"}
        digits == IF signed THEN Tail(s) ELSE s
    IN  IF IsDecimal(digits)
        THEN [ok |-> TRUE,
              val |-> Ratio(IF signed /\ s[1] = "-" THEN -DecimalValue(digits)
                            ELSE DecimalValue(digits), 1)]
        ELSE [ok |-> FALSE, val |-> Zero]

\* str::parse::<usize>: an optional '+' and one or more decimal digits
ParseUsize(s) ==
    LET digits == IF s # <<>> /\ s[1] = "+" THEN Tail(s) ELSE s
    IN  IF IsDecimal(digits)
        THEN [ok |-> TRUE, val |-> DecimalValue(digits)]
        ELSE [ok |-> FALSE, val |-> 0]

RECURSIVE FormatNat(_)
FormatNat(n) ==
    IF n < 10 THEN <<Digits[n + 1]>> ELSE FormatNat(n \div 10) \o <<Digits[(n % 10) + 1]>>

\* Display of an f64 that holds an integer ("0", "2", "-5"); the operands that
\* reach the error message of execute_operation are parsed integer literals
FormatF64(v) ==
    IF v[1] < 0 THEN <<"-">> \o FormatNat(-v[1]) ELSE FormatNat(v[1])

(***************************************************************************)
(* Evaluation.                                                             *)
(***************************************************************************)
Ok(v) == [kind |-> "Ok", val |-> v, msg |-> <<>>]

InvalidExpression(msg) == [kind |-> "InvalidExpression", val |-> Zero, msg |-> msg]

DivideByZero == [kind |-> "DivideByZero", val |-> Zero, msg |-> <<>>]

\* variant: the subtraction takes its operands in the other order
execute_operation_SwappedMinus(operator, l_operand, r_operand) ==
    IF operator = <<"+">> THEN Ok(F64Add(l_operand, r_operand))
    ELSE IF operator = <<"-">> THEN Ok(F64Sub(r_operand, l_operand))
    ELSE IF operator = <<"*">> THEN Ok(F64Mul(l_operand, r_operand))
    ELSE IF operator = <<"/">>
         THEN IF r_operand = Zero THEN DivideByZero ELSE Ok(F64Div(l_operand, r_operand))
    ELSE IF operator = <<"^">> THEN Ok(Powf(l_operand, r_operand))
    ELSE InvalidExpression(FormatF64(l_operand) \o <<" ">> \o operator \o <<" ">>
                           \o FormatF64(r_operand))

\* variant: the division also fails when the left operand is zero
execute_operation_EitherZero(operator, l_operand, r_operand) ==
    IF operator = <<"+">> THEN Ok(F64Add(l_operand, r_operand))
    ELSE IF operator = <<"-">> THEN Ok(F64Sub(l_operand, r_operand))
    ELSE IF operator = <<"*">> THEN Ok(F64Mul(l_operand, r_operand))
    ELSE IF operator = <<"/">>
         THEN IF r_operand = Zero \/ l_operand = Zero
              THEN DivideByZero ELSE Ok(F64Div(l_operand, r_operand))
    ELSE IF operator = <<"^">> THEN Ok(Powf(l_operand, r_operand))
    ELSE InvalidExpression(FormatF64(l_operand) \o <<" ">> \o operator \o <<" ">>
                           \o FormatF64(r_operand))

execute_operation(operator, l_operand, r_operand) ==
    IF operator = <<"+">> THEN Ok(F64Add(l_operand, r_operand))
    ELSE IF operator = <<"-">> THEN Ok(F64Sub(l_operand, r_operand))
    ELSE IF operator = <<"*">> THEN Ok(F64Mul(l_operand, r_operand))
    ELSE IF operator = <<"/">>
         THEN IF r_operand = Zero THEN DivideByZero ELSE Ok(F64Div(l_operand, r_operand))
    ELSE IF operator = <<"^">> THEN Ok(Powf(l_operand, r_operand))
    ELSE InvalidExpression(FormatF64(l_operand) \o <<" ">> \o operator \o <<" ">>
                           \o FormatF64(r_operand))

\* variant: the error does not carry the value
evaluate_leaf_NoText(node) ==
    LET value == ParseF64(node.value)
    IN  IF value.ok THEN Ok(value.val) ELSE InvalidExpression(<<>>)

\* evaluate on a node without children
evaluate_leaf(node) ==
    LET value == ParseF64(node.value)
    IN  IF value.ok THEN Ok(value.val) ELSE InvalidExpression(node.value)

\* evaluate on the node at path (the "l"/"r" steps from the root):
\* res is the value returned, calls the paths of the nodes evaluate was
\* called on, in call order
RECURSIVE evaluate_calls(_, _)
\* variant: the right child is evaluated before the left child
evaluate_calls_RightFirst(node, path) ==
    IF ~has_children(node)
    THEN [res |-> evaluate_leaf(node), calls |-> <<path>>]
    ELSE LET r == IF node.r_child = None
                  THEN [res |-> Ok(Zero), calls |-> <<>>]
                  ELSE evaluate_calls(node.r_child[1], Append(path, "r"))
         IN  IF r.res.kind # "Ok"
             THEN [res |-> r.res, calls |-> <<path>> \o r.calls]
             ELSE LET l == IF node.l_child = None
                           THEN [res |-> Ok(Zero), calls |-> <<>>]
                           ELSE evaluate_calls(node.l_child[1], Append(path, "l"))
                  IN  IF l.res.kind # "Ok"
                      THEN [res |-> l.res, calls |-> <<path>> \o r.calls \o l.calls]
                      ELSE [res   |-> execute_operation(node.value, l.res.val, r.res.val),
                            calls |-> <<path>> \o r.calls \o l.calls]

evaluate_calls(node, path) ==
    IF ~has_children(node)
    THEN [res |-> evaluate_leaf(node), calls |-> <<path>>]
    ELSE LET l == IF node.l_child = None
                  THEN [res |-> Ok(Zero), calls |-> <<>>]
                  ELSE evaluate_calls(node.l_child[1], Append(path, "l"))
         IN  IF l.res.kind # "Ok"
             THEN [res |-> l.res, calls |-> <<path>> \o l.calls]
             ELSE LET r == IF node.r_child = None
                           THEN [res |-> Ok(Zero), calls |-> <<>>]
                           ELSE evaluate_calls(node.r_child[1], Append(path, "r"))
                  IN  IF r.res.kind # "Ok"
                      THEN [res |-> r.res, calls |-> <<path>> \o l.calls \o r.calls]
                      ELSE [res   |-> execute_operation(node.value, l.res.val, r.res.val),
                            calls |-> <<path>> \o l.calls \o r.calls]

evaluate(node) == evaluate_calls(node, <<>>).res

(***************************************************************************)
(* Rendering.                                                              *)
(***************************************************************************)
\* the rows pushed by one of the loops: a prefix, the row, a newline
RECURSIVE PushRows(_, _, _)
PushRows(rows, first_prefix, other_prefix) ==
    IF rows = <<>> THEN <<>>
    ELSE first_prefix \o rows[1] \o <<"\n">>
         \o PushRows(Tail(rows), other_prefix, other_prefix)

RECURSIVE to_string(_)
to_string(node) ==
    LET head == node.value \o (IF has_children(node) THEN <<"\n">> ELSE <<>>)
    IN  IF node.l_child # None
        THEN LET l_child_rows == SplitOn(TrimEnd(to_string(node.l_child[1])), "\n")
             IN  IF node.r_child # None
                 THEN LET r_child_rows == SplitOn(TrimEnd(to_string(node.r_child[1])), "\n")
                      IN  head
                          \o PushRows(l_child_rows, <<"|", "-", "-", " ">>, <<"|", " ", " ", " ">>)
                          \o PushRows(r_child_rows, <<Backtick, "-", "-", " ">>, <<" ", " ", " ", " ">>)
                 ELSE head
                      \o PushRows(l_child_rows, <<Backtick, "-", "-", " ">>, <<" ", " ", " ", " ">>)
        ELSE head

(***************************************************************************)
(* The Fibonacci command of the read loop.                                 *)
(***************************************************************************)
\* rec_fib: [panic, val, cache]; n = 0 indexes cache[0 - 1], which panics in
\* every build (the subtraction overflows, or the wrapped index is out of range).
\* The arguments of the model keep every sum far below 2^128.
RECURSIVE rec_fib(_, _)
rec_fib(n, cache) ==
    IF Len(cache) >= n
    THEN IF n = 0
         THEN [panic |-> TRUE, val |-> 0, cache |-> cache]
         ELSE [panic |-> FALSE, val |-> cache[n], cache |-> cache]
    ELSE LET a == rec_fib(n - 2, cache)
             b == rec_fib(n - 1, a.cache)
         IN  IF a.panic \/ b.panic
             THEN [panic |-> TRUE, val |-> 0, cache |-> b.cache]
             ELSE LET fib_value == a.val + b.val
                      inserted  == SubSeq(b.cache, 1, n - 1) \o <<fib_value>>
                                   \o SubSeq(b.cache, n, Len(b.cache))
                  IN  [panic |-> FALSE, val |-> inserted[n], cache |-> inserted]

fib(n) == rec_fib(n, <<1, 1>>)

(***************************************************************************)
(* Inputs.                                                                 *)
(***************************************************************************)
\* the tokens the enumerated expressions are made of
Tokens == {<<"+">>, <<"-">>, <<"*">>, <<"/">>, <<"^">>, <<"0">>, <<"2">>}

TokenSeqs(n) == UNION {[1..k -> Tokens] : k \in 1..n}

\* the expressions of the tests of node.rs, and expressions with longer tokens,
\* with a sign, without spaces, and with two spaces in a row
Examples ==
    { <<"1", " ", "+", " ", "2">>,
      <<"1", " ", "-", " ", "2">>,
      <<"2", " ", "*", " ", "1", "0">>,
      <<"1", " ", "/", " ", "1", "0">>,
      <<"1", " ", "/", " ", "0">>,
      <<"e", "x", "p", "r", "e", "s", "s", "i", "o", "n">>,
      <<"1", " ", "+", " ", "2", " ", "*", " ", "3">>,
      <<"2", " ", "*", " ", "3", " ", "^", " ", "2">>,
      <<"4", "2">>,
      <<"4", "2", " ", "7">>,
      <<"2", "+", "2">>,
      <<"-", "2", " ", "*", " ", "3">>,
      <<"2", " ", " ", "+", " ", "2">>,
      <<"x", " ", "+", " ", "1", " ", "/", " ", "0">>,
      <<>> }

Expressions == {Join(ts, <<" ">>) : ts \in TokenSeqs(MaxTokens)} \cup Examples

\* the lines of standard input: commands and expressions, each ended by a
\* newline, and the empty read at end of input
Commands ==
    { <<"e", "n", "d">>,
      <<" ", "e", "n", "d", " ">>,
      <<"f", "i", "b">>,
      <<"f", "i", "b", "0">>,
      <<"f", "i", "b", " ", "2">>,
      <<"f", "i", "b", "1", "2">>,
      <<"f", "i", "b", " ", "x">> }

Lines ==
    {l \o <<"\n">> : l \in {Join(ts, <<" ">>) : ts \in TokenSeqs(MaxLineTokens)}
                          \cup Examples \cup Commands}
    \cup {<<>>}

(***************************************************************************)
(* State.  root, result and rendered are Options (the tree, the value of   *)
(* evaluate and the value of to_string of the line being processed, None   *)
(* when the line builds no tree); stdout holds what the latest iteration   *)
(* of the read loop printed.                                               *)
(***************************************************************************)
\* Node::from_expression called on an expression
InitCore ==
    /\ pc = "start"
    /\ input \in Expressions
    /\ root = None
    /\ result = None
    /\ rendered = None
    /\ stdout = <<>>

FromExpression ==
    /\ pc = "start"
    /\ root' = Some(from_expression(input))
    /\ pc' = "built"
    /\ UNCHANGED <<input, result, rendered, stdout>>

Evaluate ==
    /\ pc = "built"
    /\ result' = Some(evaluate_calls(root[1], <<>>))
    /\ pc' = "evaluated"
    /\ UNCHANGED <<input, root, rendered, stdout>>

Render ==
    /\ pc = "evaluated"
    /\ rendered' = Some(to_string(root[1]))
    /\ pc' = "rendered"
    /\ UNCHANGED <<input, root, result, stdout>>

NextCore == FromExpression \/ Evaluate \/ Render

SpecCore == InitCore /\ [][NextCore]_vars

(***************************************************************************)
(* The read loop of main.  pc is "loop" at the top of the loop, "returned" *)
(* after main returned and "panicked" after the thread panicked.           *)
(***************************************************************************)
Prompt == <<"prompt">>

\* read(): the line, trimmed
read(line) == Trim(line)

Init ==
    /\ pc = "loop"
    /\ input = <<>>
    /\ root = None
    /\ result = None
    /\ rendered = None
    /\ stdout = <<>>

\* input == "end": main returns
ReadEnd(line) ==
    /\ pc = "loop"
    /\ input' = read(line)
    /\ input' = <<"e", "n", "d">>
    /\ pc' = "returned"
    /\ stdout' = <<Prompt>>
    /\ root' = None /\ result' = None /\ rendered' = None

\* &input[0..3] on fewer than three bytes: the slice index panics
ReadShort(line) ==
    /\ pc = "loop"
    /\ input' = read(line)
    /\ input' # <<"e", "n", "d">>
    /\ Len(input') < 3
    /\ pc' = "panicked"
    /\ stdout' = <<Prompt>>
    /\ root' = None /\ result' = None /\ rendered' = None

\* the fib command
ReadFib(line) ==
    /\ pc = "loop"
    /\ input' = read(line)
    /\ input' # <<"e", "n", "d">>
    /\ Len(input') >= 3
    /\ SubSeq(input', 1, 3) = <<"f", "i", "b">>
    /\ LET parsed   == ParseUsize(Trim(SubSeq(input', 4, Len(input'))))
           argument == IF parsed.ok THEN parsed.val ELSE 1
           f        == fib(argument)
       IN  IF f.panic
           THEN /\ pc' = "panicked"
                /\ stdout' = <<Prompt>>
           ELSE /\ pc' = "loop"
                /\ stdout' = <<Prompt, <<"fib", argument, f.val>>>>
    /\ root' = None /\ result' = None /\ rendered' = None

\* an expression: build the tree, evaluate it, print the tree and the result
\* or the error
ReadExpression(line) ==
    /\ pc = "loop"
    /\ input' = read(line)
    /\ input' # <<"e", "n", "d">>
    /\ Len(input') >= 3
    /\ SubSeq(input', 1, 3) # <<"f", "i", "b">>
    /\ root' = Some(from_expression(input'))
    /\ result' = Some(evaluate_calls(root'[1], <<>>))
    /\ IF result'[1].res.kind = "Ok"
       THEN /\ rendered' = Some(to_string(root'[1]))
            /\ stdout' = <<Prompt, <<"tree", rendered'[1]>>, <<"result", result'[1].res.val>>>>
       ELSE /\ rendered' = None
            /\ stdout' = <<Prompt, <<"error", result'[1].res>>>>
    /\ pc' = "loop"

Next ==
    \E line \in Lines :
        \/ ReadEnd(line)
        \/ ReadShort(line)
        \/ ReadFib(line)
        \/ ReadExpression(line)

Spec == Init /\ [][Next]_vars

(***************************************************************************)
(* Vocabulary of the properties.                                           *)
(***************************************************************************)
Additive == {<<"+">>, <<"-">>}

Multiplicative == {<<"*">>, <<"/">>}

Exponent == {<<"^">>}

OperatorTokens == Additive \cup Multiplicative \cup Exponent

OperatorChars == {"+", "-", "*", "/", "^"}

InputTokens == SplitOn(input, " ")

HasToken(ts, S) == \E i \in 1..Len(ts) : ts[i] \in S

Leftmost(ts, S) == CHOOSE i \in 1..Len(ts) : ts[i] \in S /\ \A j \in 1..(i - 1) : ts[j] \notin S

\* the position (from 1) of the operator token with the lowest priority
Selected(ts) ==
    IF HasToken(ts, Additive) THEN Leftmost(ts, Additive)
    ELSE IF HasToken(ts, Multiplicative) THEN Leftmost(ts, Multiplicative)
    ELSE Leftmost(ts, Exponent)

\* the child built from a remainder
ChildOf(remainder) == IF remainder = <<>> THEN None ELSE Some(from_expression(remainder))

\* the arithmetic of an operator on two operands
Arithmetic(op, a, b) ==
    IF op = <<"+">> THEN Ok(F64Add(a, b))
    ELSE IF op = <<"-">> THEN Ok(F64Sub(a, b))
    ELSE IF op = <<"*">> THEN Ok(F64Mul(a, b))
    ELSE IF op = <<"/">> THEN (IF b = Zero THEN DivideByZero ELSE Ok(F64Div(a, b)))
    ELSE Ok(Powf(a, b))

Evaluated == pc \in {"evaluated", "rendered"}

Built == pc \in {"built", "evaluated", "rendered"}

\* the operand a child contributes: its value, or 0.0 when it is absent
Operand(child) == IF child = None THEN Ok(Zero) ELSE evaluate(child[1])

\* the input is "a OP b" with numeric a and b, and b # 0 when OP is /
IsBinary ==
    /\ Len(InputTokens) = 3
    /\ InputTokens[2] \in OperatorTokens
    /\ ParseF64(InputTokens[1]).ok
    /\ ParseF64(InputTokens[3]).ok
    /\ InputTokens[2] = <<"/">> => ParseF64(InputTokens[3]).val # Zero

(***************************************************************************)
(* C1: building and evaluating "a OP b", with numeric literals a and b, OP *)
(* one of + - * / ^ and b # 0 when OP is /, returns Ok of the arithmetic   *)
(* result of a OP b ("1 + 2" gives 3, "1 - 2" gives -1, "2 * 10" gives 20)  *)
(***************************************************************************)
C1_BinaryExpression ==
    /\ (Evaluated /\ IsBinary) =>
          /\ result[1].res.kind = "Ok"
          /\ result[1].res = Arithmetic(InputTokens[2], ParseF64(InputTokens[1]).val,
                                        ParseF64(InputTokens[3]).val)
    /\ (Evaluated /\ input = <<"1", " ", "+", " ", "2">>) => result[1].res = Ok(Ratio(3, 1))
    /\ (Evaluated /\ input = <<"1", " ", "-", " ", "2">>) => result[1].res = Ok(Ratio(-1, 1))
    /\ (Evaluated /\ input = <<"2", " ", "*", " ", "1", "0">>) => result[1].res = Ok(Ratio(20, 1))
    /\ (Evaluated /\ input = <<"1", " ", "/", " ", "1", "0">>) => result[1].res = Ok(Ratio(1, 10))

C1_Witness ==
    /\ Evaluated
    /\ IsBinary
    /\ InputTokens[2] = <<"-">>
    /\ result[1].res = Ok(Ratio(-2, 1))

(***************************************************************************)
(* C2: when the token sequence holds an operator token, the splitter       *)
(* selects the leftmost + or -, else the leftmost * or /, else the         *)
(* leftmost ^; the value is that token and the remainders are the tokens   *)
(* before it and after it joined by single spaces.  "1 + 2 * 3" has root + *)
(* and evaluates to 7, "2 * 3 ^ 2" has root * and evaluates to 18.         *)
(***************************************************************************)
C2_LowestPriorityOperator ==
    /\ (Built /\ HasToken(InputTokens, OperatorTokens)) =>
          LET ts  == InputTokens
              sel == Selected(ts)
              l   == Join(SubSeq(ts, 1, sel - 1), <<" ">>)
              r   == Join(SubSeq(ts, sel + 1, Len(ts)), <<" ">>)
          IN  /\ split_on_lowest_priority_operator(input) = <<ts[sel], l, r>>
              /\ root[1] = Node(ts[sel], ChildOf(l), ChildOf(r))
    /\ (Evaluated /\ input = <<"1", " ", "+", " ", "2", " ", "*", " ", "3">>) =>
          /\ root[1].value = <<"+">>
          /\ result[1].res = Ok(Ratio(7, 1))
    /\ (Evaluated /\ input = <<"2", " ", "*", " ", "3", " ", "^", " ", "2">>) =>
          /\ root[1].value = <<"*">>
          /\ result[1].res = Ok(Ratio(18, 1))

\* a * after a ^ and before a later *: the leftmost * is the root
C2_Witness ==
    /\ Built
    /\ InputTokens = <<(<<"2">>), (<<"^">>), (<<"2">>), (<<"*">>), (<<"2">>)>>
    /\ root[1].value = <<"*">>
    /\ root[1].l_child # None
    /\ root[1].l_child[1].value = <<"^">>

(***************************************************************************)
(* C3: chains of operators of one tier are left-associative: "a - b - c"   *)
(* evaluates to (a - b) - c and "a / b / c" (b, c nonzero) to (a / b) / c. *)
(***************************************************************************)
IsChain(S) ==
    /\ Len(InputTokens) = 5
    /\ InputTokens[2] \in S
    /\ InputTokens[4] \in S
    /\ \A i \in {1, 3, 5} : ParseF64(InputTokens[i]).ok
    /\ \A i \in {3, 5} : S = Multiplicative => ParseF64(InputTokens[i]).val # Zero

ChainLeftAssociative ==
    LET a  == ParseF64(InputTokens[1]).val
        b  == ParseF64(InputTokens[3]).val
        c  == ParseF64(InputTokens[5]).val
        ab == Arithmetic(InputTokens[2], a, b)
    IN  /\ ab.kind = "Ok"
        /\ result[1].res = Arithmetic(InputTokens[4], ab.val, c)

\* C3: a chain of two additive or of two multiplicative operators evaluates
\* to (a OP b) OP c
C3_LeftAssociative ==
    (Evaluated /\ (IsChain(Additive) \/ IsChain(Multiplicative))) => ChainLeftAssociative

(***************************************************************************)
(* C4: an expression that holds none of the characters + - * / ^ is        *)
(* returned by the splitter unchanged with both remainders empty, builds a *)
(* childless node whose value is the whole expression, and evaluates to    *)
(* its number when it is a numeric literal.                                *)
(***************************************************************************)
NoOperatorChars(s) == \A i \in 1..Len(s) : s[i] \notin OperatorChars

\* C4: without operator characters the expression is one childless node
C4_NoOperatorIsLeaf ==
    (Built /\ NoOperatorChars(input)) =>
        /\ split_on_lowest_priority_operator(input) = <<input, <<>>, <<>>>>
        /\ root[1] = Node(input, None, None)
        /\ (Evaluated /\ ParseF64(input).ok) => result[1].res = Ok(ParseF64(input).val)

(***************************************************************************)
(* C5: a node whose value is "/" and whose present children evaluate       *)
(* successfully evaluates to DivideByZero exactly when its right operand   *)
(* (0.0 when the right child is absent) is zero, and to Ok(left / right)   *)
(* otherwise.  "1 / 0" evaluates to an error.                              *)
(***************************************************************************)
DivisionRule ==
    LET l == Operand(root[1].l_child)
        r == Operand(root[1].r_child)
    IN  (l.kind = "Ok" /\ r.kind = "Ok") =>
            /\ (result[1].res = DivideByZero) <=> (r.val = Zero)
            /\ r.val # Zero => result[1].res = Ok(F64Div(l.val, r.val))

\* C5 as stated, for every node whose value is "/": DivideByZero exactly when
\* the right operand is zero, Ok(left / right) otherwise
C5_DivisionEveryNode ==
    (Evaluated /\ root[1].value = <<"/">>) => DivisionRule

\* C5 for the nodes that have a child: DivideByZero exactly when the right
\* operand is zero, Ok(left / right) otherwise
C5_Division ==
    /\ (Evaluated /\ root[1].value = <<"/">> /\ has_children(root[1])) => DivisionRule
    /\ (Evaluated /\ input = <<"1", " ", "/", " ", "0">>) => result[1].res = DivideByZero

\* a division whose right operand is a subtree that evaluates to zero
C5_Witness ==
    /\ Evaluated
    /\ root[1].value = <<"/">>
    /\ root[1].l_child # None
    /\ root[1].r_child # None
    /\ has_children(root[1].r_child[1])
    /\ result[1].res = DivideByZero

(***************************************************************************)
(* C6: a childless node evaluates to Ok(n) when its value parses as the    *)
(* number n and to InvalidExpression carrying exactly its value otherwise; *)
(* "expression" evaluates to an error.                                     *)
(***************************************************************************)
C6_Leaf ==
    /\ (Evaluated /\ ~has_children(root[1])) =>
          LET parsed == ParseF64(root[1].value)
          IN  /\ parsed.ok => result[1].res = Ok(parsed.val)
              /\ ~parsed.ok => /\ result[1].res.kind = "InvalidExpression"
                               /\ result[1].res.msg = root[1].value
    /\ (Evaluated /\ input = <<"e", "x", "p", "r", "e", "s", "s", "i", "o", "n">>) =>
          result[1].res = InvalidExpression(input)

C6_Witness ==
    /\ Evaluated
    /\ input = <<"e", "x", "p", "r", "e", "s", "s", "i", "o", "n">>
    /\ ~has_children(root[1])
    /\ result[1].res.kind = "InvalidExpression"
    /\ result[1].res.msg = input

(***************************************************************************)
(* C7: an input line other than "end" never terminates the process: the    *)
(* read loop prints the tree and the result, or one error line, and is     *)
(* back at the top of the loop, whatever the length of the line.           *)
(***************************************************************************)
IsFibCommand(s) == Len(s) >= 3 /\ SubSeq(s, 1, 3) = <<"f", "i", "b">>

\* C7: after a line that is neither "end" nor a fib command the loop has
\* printed the tree and the result, or one error line, and has not terminated
C7_LineNeverTerminates ==
    (stdout # <<>> /\ input # <<"e", "n", "d">> /\ ~IsFibCommand(input)) =>
        /\ pc = "loop"
        /\ \/ Len(stdout) = 3 /\ stdout[2][1] = "tree" /\ stdout[3][1] = "result"
           \/ Len(stdout) = 2 /\ stdout[2][1] = "error"

(***************************************************************************)
(* C8: rendering shows every node: to_string emits one line per node, a    *)
(* node with two children marks its left child "|-- " and its right child  *)
(* with the grave-accent marker, a node with one child (left or right)     *)
(* marks it with one grave-accent marker, so the "|-- " markers are as     *)
(* many as the nodes with two children.                                    *)
(***************************************************************************)
RECURSIVE CountNodes(_, _)
\* how many nodes of the tree have a number of children in S
CountNodes(node, S) ==
    LET n == (IF node.l_child = None THEN 0 ELSE 1) + (IF node.r_child = None THEN 0 ELSE 1)
    IN  (IF n \in S THEN 1 ELSE 0)
        + (IF node.l_child = None THEN 0 ELSE CountNodes(node.l_child[1], S))
        + (IF node.r_child = None THEN 0 ELSE CountNodes(node.r_child[1], S))

Occurrences(text, pat) ==
    Cardinality({i \in 0..(Len(text) - Len(pat)) : SubSeq(text, i + 1, i + Len(pat)) = pat})

\* the lines of a text whose last line may or may not end with a newline
LinesOf(text) ==
    IF text # <<>> /\ text[Len(text)] = "\n"
    THEN SplitOn(SubSeq(text, 1, Len(text) - 1), "\n")
    ELSE SplitOn(text, "\n")

\* C8: one line per node, one "|-- " per node with two children, one
\* grave-accent marker per node with a child
C8_EveryNodeRendered ==
    pc = "rendered" =>
        /\ Len(LinesOf(rendered[1])) = CountNodes(root[1], {0, 1, 2})
        /\ Occurrences(rendered[1], <<"|", "-", "-", " ">>) = CountNodes(root[1], {2})
        /\ Occurrences(rendered[1], <<Backtick, "-", "-", " ">>) = CountNodes(root[1], {1, 2})

(***************************************************************************)
(* C9: a node with children evaluates its left child before its right      *)
(* child and returns the first failure unchanged: when the left subtree    *)
(* fails with e the value is e and the right subtree is not evaluated;     *)
(* when the left succeeds and the right fails with e the value is e.       *)
(***************************************************************************)
\* evaluate was called on no node of the right subtree of the root
RightNotEvaluated(calls) == \A i \in 1..Len(calls) : calls[i] = <<>> \/ calls[i][1] = "l"

\* C9: the first failure, left before right, is the value of evaluate, and a
\* failure of the left subtree leaves the right subtree unevaluated
C9_FirstFailure ==
    (Evaluated /\ has_children(root[1])) =>
        LET l == IF root[1].l_child = None
                 THEN [res |-> Ok(Zero), calls |-> <<>>]
                 ELSE evaluate_calls(root[1].l_child[1], <<"l">>)
            r == IF root[1].r_child = None
                 THEN [res |-> Ok(Zero), calls |-> <<>>]
                 ELSE evaluate_calls(root[1].r_child[1], <<"r">>)
        IN  /\ l.res.kind # "Ok" =>
                  /\ result[1].res = l.res
                  /\ RightNotEvaluated(result[1].calls)
            /\ (l.res.kind = "Ok" /\ r.res.kind # "Ok") =>
                  /\ result[1].res = r.res
                  /\ result[1].calls = <<(<<>>)>> \o l.calls \o r.calls

\* both subtrees fail, with different errors, and the left one is returned
C9_Witness ==
    /\ Evaluated
    /\ root[1].l_child # None
    /\ root[1].r_child # None
    /\ evaluate(root[1].l_child[1]).kind = "InvalidExpression"
    /\ evaluate(root[1].r_child[1]).kind = "DivideByZero"
    /\ result[1].res = evaluate(root[1].l_child[1])
    /\ RightNotEvaluated(result[1].calls)

(***************************************************************************)
(* C10: an operator with a missing operand is no construction error: when  *)
(* the selected operator token is the first (last) token, from_expression  *)
(* returns a node with that operator as value, no left (right) child and   *)
(* the other child built from the remaining tokens, and evaluate applies   *)
(* the operator with 0.0 for the absent operand ("- 5" is 0 - 5, "5 -" is  *)
(* 5 - 0).                                                                 *)
(***************************************************************************)
\* the node of operator op with the remainders lrem and rrem, and its value
\* when the children that are present evaluate successfully
OperatorNode(op, lrem, rrem) ==
    /\ root[1] = Node(op, ChildOf(lrem), ChildOf(rrem))
    /\ (Evaluated /\ Operand(ChildOf(lrem)).kind = "Ok" /\ Operand(ChildOf(rrem)).kind = "Ok") =>
          result[1].res = Arithmetic(op, Operand(ChildOf(lrem)).val, Operand(ChildOf(rrem)).val)

RestAfterFirst == Join(Tail(InputTokens), <<" ">>)

RestBeforeLast == Join(SubSeq(InputTokens, 1, Len(InputTokens) - 1), <<" ">>)

SelectedFirst == HasToken(InputTokens, OperatorTokens) /\ Selected(InputTokens) = 1

SelectedLast == HasToken(InputTokens, OperatorTokens) /\ Selected(InputTokens) = Len(InputTokens)

\* C10 as stated, for every sequence whose selected operator is first or last:
\* the operand on that side is absent and evaluate substitutes 0.0 for it
C10_MissingOperandAlways ==
    /\ (Built /\ SelectedFirst) => OperatorNode(InputTokens[1], <<>>, RestAfterFirst)
    /\ (Built /\ SelectedLast) => OperatorNode(InputTokens[Len(InputTokens)], RestBeforeLast, <<>>)

\* C10 when the remaining tokens join to a non-empty string: the operand on
\* the side of the missing tokens is absent and evaluate substitutes 0.0 for it
C10_MissingOperand ==
    /\ (Built /\ SelectedFirst /\ RestAfterFirst # <<>>) =>
          /\ root[1].l_child = None
          /\ root[1].r_child # None
          /\ OperatorNode(InputTokens[1], <<>>, RestAfterFirst)
    /\ (Built /\ SelectedLast /\ RestBeforeLast # <<>>) =>
          /\ root[1].r_child = None
          /\ root[1].l_child # None
          /\ OperatorNode(InputTokens[Len(InputTokens)], RestBeforeLast, <<>>)

\* "- 2" evaluates as 0 - 2
C10_Witness ==
    /\ Evaluated
    /\ SelectedFirst
    /\ input = <<"-", " ", "2">>
    /\ root[1] = Node(<<"-">>, None, Some(Node(<<"2">>, None, None)))
    /\ result[1].res = Ok(Ratio(-2, 1))

====
